---- MODULE Spec2Model ----
(***************************************************************************)
(* The rewards ledger of the_revault_vault: the Firestore helpers of       *)
(* src/unnamed/part_000 (orders, redemptions, gold price, dashboard).      *)
(*                                                                         *)
(* The store is a set of collections of documents.  Every `await` of a     *)
(* handler is one store step; a handler with several awaits is a sequence  *)
(* of actions of one caller p, its position kept in pc[p].  A field that a *)
(* JavaScript document does not carry is NoVal (string fields) or None     *)
(* (numbers and timestamps, which are Some(v) when present).               *)
(***************************************************************************)
EXTENDS Integers, Sequences, FiniteSets, TLC

\* ------------------------------------------------------------------ bounds
MaxOrders == 2
MaxRedemptions == 2
MaxTicks == 1

\* ------------------------------------------------------- program constants
\* thirtyDays = 30 * 24 * 60 * 60 * 1000 ms, kept as 30 days of MsPerDay ms:
\* the product does not fit the model checker's integers.
VestingDays == 30
MsPerDay == 86400000

\* ------------------------------------------------------------ input values
Procs == {1, 2}
Emails == {"a", "b"}
OrderIds == {"X"}
NoVal == "undefined"
None == <<>>
Some(v) == <<v>>
Null == [null |-> TRUE]
NoDoc == [exists |-> FALSE]

Time(d, ms) == [d |-> d, ms |-> ms]
StartTime == Time(VestingDays, 0)

\* A JavaScript number that is a price or an amount of money: NaN, or a count
\* of thousandths (Num(50000) is 50).
Num(v) == [nan |-> FALSE, v |-> v]
NaN == [nan |-> TRUE, v |-> 0]
Plus(x, y) == IF x.nan \/ y.nan THEN NaN ELSE Num(x.v + y.v)
\* g * x for a whole number g.
Times(g, x) == IF x.nan THEN NaN ELSE Num(g * x.v)

Prices == {Num(50000)}

OrderIdsOfStore == 1..MaxOrders
RedemptionIdsOfStore == 1..MaxRedemptions

\* The collections orders, redemptions, users and shops, the document
\* config/goldPrice, the clock, and each caller's place, arguments, locals and
\* last return value. hist[p] is a history kept for the claims: what the
\* store has held since caller p's getDashboardData call in progress began.
VARIABLES orders, redemptions, config, users, shops, now, ticks, pc, arg,
          snapshot, updatedOrder, acc, userDoc, ret, hist

vars == <<orders, redemptions, config, users, shops, now, ticks, pc, arg,
          snapshot, updatedOrder, acc, userDoc, ret, hist>>

store == <<orders, redemptions, config, users, shops>>
locals == <<arg, snapshot, updatedOrder, acc>>

\* doc.exists
Exists(doc) == "exists" \notin DOMAIN doc

StoreState(o, r, c, u, s) == [orders |-> o, redemptions |-> r, config |-> c, users |-> u, shops |-> s]

\* The ledger's quantities as the data model states them, over the store.
RECURSIVE SetSum(_, _)
SetSum(S, f) ==
  IF S = {} THEN 0
  ELSE LET x == CHOOSE y \in S : TRUE IN f[x] + SetSum(S \ {x}, f)

GramsOf(n) == IF n = None THEN 0 ELSE n[1]

\* created + 30 days is not after t.
DueBy(created, t) ==
  LET due == Time(created.d + VestingDays, created.ms)
  IN due.d < t.d \/ (due.d = t.d /\ due.ms <= t.ms)

\* The hundredth nearest to an amount in thousandths.
NearestHundredth(x) ==
  LET below == x - (x % 10) IN IF x - below < 5 THEN below ELSE below + 10

\* What the store in state st holds for email e at time t, default price d:
\* the grams of e's orders, their value at the price in force rounded to two
\* decimals, and the vested grams less those of e's pending and approved
\* redemptions, not below 0.
StateSummary(st, e, d, t) ==
  LET mine == {id \in DOMAIN st.orders : Exists(st.orders[id]) /\ st.orders[id].userEmail = e}
      vested == {id \in mine : /\ st.orders[id].createdAt # None
                               /\ DueBy(st.orders[id].createdAt[1], t)}
      held == {id \in DOMAIN st.redemptions :
                 /\ Exists(st.redemptions[id])
                 /\ st.redemptions[id].email = e
                 /\ st.redemptions[id].status \in {"pending", "approved"}}
      grams == [id \in DOMAIN st.orders |->
                  IF Exists(st.orders[id]) THEN GramsOf(st.orders[id].rewardGrams) ELSE 0]
      redeemed == [id \in DOMAIN st.redemptions |->
                     IF Exists(st.redemptions[id]) THEN GramsOf(st.redemptions[id].grams) ELSE 0]
      price == IF Exists(st.config) THEN st.config.price ELSE d
      left == SetSum(vested, grams) - SetSum(held, redeemed)
  IN [totalGrams |-> SetSum(mine, grams),
      totalValue |-> IF price.nan THEN NaN
                     ELSE Num(NearestHundredth(SetSum(mine, grams) * price.v)),
      redeemableGrams |-> IF left > 0 THEN left ELSE 0,
      currentPrice |-> price]

InDashboard(p) ==
  pc[p] \in {"getDashboardData_orders", "getDashboardData_redemptions", "getDashboardData_shops"}

\* The history of a getDashboardData call: the summaries of the states the
\* store has been in since the call began, and whether a write has landed.
NoHist == [seen |-> {}, written |-> FALSE]

Began(p) ==
  [seen |-> {StateSummary(StoreState(orders, redemptions, config, users, shops),
                          arg'[p].email, arg'[p].defaultPrice, now)},
   written |-> FALSE]

\* A step that writes to the store adds the state it leaves to the history of
\* every getDashboardData call in progress.
Observe ==
  hist' = [p \in Procs |->
             IF InDashboard(p) /\ store' # store
             THEN [seen |-> hist[p].seen \cup
                              {StateSummary(StoreState(orders', redemptions', config', users', shops'),
                                            arg[p].email, arg[p].defaultPrice, now)},
                   written |-> TRUE]
             ELSE hist[p]]

\* ------------------------------------------------------------ store access
\* { id: doc.id, ...doc.data() }
WithId(id, data) == [id |-> id] @@ data

\* JavaScript truthiness of a string field: undefined and "" are falsy.
Truthy(s) == s # NoVal /\ s # ""

\* x || 0 on an optional number.
OrZero(n) == IF n = None THEN 0 ELSE IF n[1] = 0 THEN 0 ELSE n[1]

\* The ids of a collection whose document exists, in document-id order (the
\* order of a query snapshot's docs).
RECURSIVE IdsFrom(_, _, _)
IdsFrom(coll, i, max) ==
  IF i > max THEN <<>>
  ELSE (IF Exists(coll[i]) THEN <<i>> ELSE <<>>) \o IdsFrom(coll, i + 1, max)

\* collection.where(field, '==', value).get(): a document without the field
\* does not match.
RECURSIVE SelectIds(_, _, _, _)
SelectIds(coll, ids, field, value) ==
  IF ids = <<>> THEN <<>>
  ELSE (IF coll[Head(ids)][field] = value THEN <<Head(ids)>> ELSE <<>>)
       \o SelectIds(coll, Tail(ids), field, value)

\* snapshot.docs of a query: each doc carries its id and the data read.
Docs(coll, ids) == [i \in 1..Len(ids) |-> [id |-> ids[i], data |-> coll[ids[i]]]]

\* snapshot.docs.map((doc) => ({ id: doc.id, ...doc.data() }))
MapWithId(docs) == [i \in 1..Len(docs) |-> WithId(docs[i].id, docs[i].data)]

\* The id add() gives a new document: the documents of a collection are
\* numbered in the order of their creation; 0 when the collection is full.
FreshId(coll, ids) ==
  IF \A i \in ids : Exists(coll[i]) THEN 0
  ELSE CHOOSE i \in ids : ~Exists(coll[i]) /\ \A j \in ids : j < i => Exists(coll[j])

Idle(p) == pc[p] = "idle"

\* The state a caller keeps: pc[p] is its place in the handler it runs, arg[p]
\* the arguments of its current or last call, ret[p] what its last completed
\* call returned.
Return(p, op, val) ==
  /\ pc' = [pc EXCEPT ![p] = "idle"]
  /\ ret' = [ret EXCEPT ![p] = [op |-> op, val |-> val]]

\* An object with none of the fields of a user record: {}.
NoUser ==
  [email |-> NoVal, displayName |-> NoVal, phone |-> NoVal, createdAt |-> None,
   updatedAt |-> None]

NoArg ==
  [orderId |-> NoVal, email |-> NoVal, id |-> 0, defaultPrice |-> Num(0), data |-> NoUser]
NoAcc == [currentPrice |-> Num(0), orders |-> <<>>, totalGrams |-> 0, totalValue |-> Num(0),
          redeemableGrams |-> 0, now |-> StartTime]

Init ==
  /\ orders = [i \in OrderIdsOfStore |-> NoDoc]
  /\ redemptions = [i \in RedemptionIdsOfStore |-> NoDoc]
  /\ config = NoDoc
  /\ users = [e \in Emails |-> NoDoc]
  /\ shops = <<>>
  /\ now = StartTime
  /\ ticks = 0
  /\ pc = [p \in Procs |-> "idle"]
  /\ arg = [p \in Procs |-> NoArg]
  /\ snapshot = [p \in Procs |-> <<>>]
  /\ updatedOrder = [p \in Procs |-> Null]
  /\ acc = [p \in Procs |-> NoAcc]
  /\ userDoc = [p \in Procs |-> NoDoc]
  /\ ret = [p \in Procs |-> [op |-> "none", val |-> Null]]
  /\ hist = [p \in Procs |-> NoHist]

\* The clock: Date.now() and new Date() read it; it advances by one ms.
Tick ==
  /\ ticks < MaxTicks
  /\ ticks' = ticks + 1
  /\ now' = IF now.ms + 1 = MsPerDay THEN Time(now.d + 1, 0)
                                    ELSE Time(now.d, now.ms + 1)
  /\ UNCHANGED <<store, pc, locals, ret, userDoc, hist>>

\* ------------------------------------------------------------------ orders
OrderData(orderId, userEmail, email, rewardGrams, createdAt) ==
  [orderId |-> orderId, userEmail |-> userEmail, email |-> email,
   rewardGrams |-> rewardGrams, createdAt |-> createdAt]

\* createOrder(data): add() stores the data under a fresh document id.
createOrder(p, data) ==
  /\ Idle(p)
  /\ \E id \in OrderIdsOfStore :
       /\ id = FreshId(orders, OrderIdsOfStore)
       /\ orders' = [orders EXCEPT ![id] = data]
       /\ Return(p, "createOrder", WithId(id, data))
  /\ arg' = [arg EXCEPT ![p] = NoArg]
  /\ UNCHANGED <<redemptions, config, users, shops, now, ticks, snapshot, updatedOrder, acc, userDoc>>
  /\ Observe

\* listOrders(email): where('email', '==', email) when email is truthy.
listOrdersIds(email) ==
  IF Truthy(email)
    THEN SelectIds(orders, IdsFrom(orders, 1, MaxOrders), "email", email)
    ELSE IdsFrom(orders, 1, MaxOrders)

listOrders(p, email) ==
  /\ Idle(p)
  /\ Return(p, "listOrders", MapWithId(Docs(orders, listOrdersIds(email))))
  /\ arg' = [arg EXCEPT ![p] = [NoArg EXCEPT !.email = email]]
  /\ UNCHANGED <<store, now, ticks, snapshot, updatedOrder, acc, userDoc, hist>>

\* claimOrder, lines 302-314: the argument check and the query by orderId.
claimOrder_query(p, orderId, email) ==
  /\ Idle(p)
  /\ arg' = [arg EXCEPT ![p] = [NoArg EXCEPT !.orderId = orderId, !.email = email]]
  /\ IF ~Truthy(orderId) \/ ~Truthy(email)
       THEN /\ Return(p, "claimOrder", [error |-> "orderId and email are required"])
            /\ UNCHANGED <<snapshot, updatedOrder>>
       ELSE LET ids == SelectIds(orders, IdsFrom(orders, 1, MaxOrders), "orderId", orderId)
            IN IF ids = <<>>
                 THEN /\ Return(p, "claimOrder", Null)
                      /\ UNCHANGED <<snapshot, updatedOrder>>
                 ELSE /\ pc' = [pc EXCEPT ![p] = "claimOrder_update"]
                      /\ snapshot' = [snapshot EXCEPT ![p] = Docs(orders, ids)]
                      /\ updatedOrder' = [updatedOrder EXCEPT ![p] = Null]
                      /\ UNCHANGED ret
  /\ UNCHANGED <<store, now, ticks, acc, userDoc, hist>>

\* A claim that attributes nothing.
Unclaimed_never(data) == FALSE

\* A claim that overwrites whatever owner the document has.
Unclaimed_always(data) == TRUE

\* The test of line 318 on the data the query read.
Unclaimed(data) == ~Truthy(data.userEmail)

\* An update that sets the field only when the stored document has none.
SetUserEmail_ifUnset(doc, email) ==
  IF Truthy(doc.userEmail) THEN doc ELSE [doc EXCEPT !.userEmail = email]

\* doc.ref.update({ userEmail: email })
SetUserEmail(doc, email) == [doc EXCEPT !.userEmail = email]

\* claimOrder, lines 317-320, for the next doc of the snapshot.
claimOrder_update(p) ==
  /\ pc[p] = "claimOrder_update"
  /\ LET doc == Head(snapshot[p])
     IN IF Unclaimed(doc.data)
          THEN orders' = [orders EXCEPT ![doc.id] = SetUserEmail(@, arg[p].email)]
          ELSE UNCHANGED orders
  /\ pc' = [pc EXCEPT ![p] = "claimOrder_get"]
  /\ UNCHANGED <<redemptions, config, users, shops, now, ticks, locals, ret, userDoc>>
  /\ Observe

\* claimOrder, lines 321-324: the refresh, then the next doc or the return.
claimOrder_get(p) ==
  /\ pc[p] = "claimOrder_get"
  /\ LET doc == Head(snapshot[p])
         refreshed == WithId(doc.id, orders[doc.id])
     IN IF Tail(snapshot[p]) = <<>>
          THEN /\ Return(p, "claimOrder", refreshed)
               /\ updatedOrder' = [updatedOrder EXCEPT ![p] = Null]
          ELSE /\ pc' = [pc EXCEPT ![p] = "claimOrder_update"]
               /\ updatedOrder' = [updatedOrder EXCEPT ![p] = refreshed]
               /\ UNCHANGED ret
  /\ snapshot' = [snapshot EXCEPT ![p] = Tail(@)]
  /\ UNCHANGED <<store, now, ticks, arg, acc, userDoc, hist>>

\* What a caller gets when an awaited store call rejects.
StoreFailure == [error |-> "store failure"]

\* claimOrder, lines 319 and 321: the awaited update or refresh rejects; the
\* loop has no try/catch, so the error leaves claimOrder and nothing written
\* before is undone.
claimOrder_fail(p) ==
  /\ pc[p] \in {"claimOrder_update", "claimOrder_get"}
  /\ Return(p, "claimOrder", StoreFailure)
  /\ snapshot' = [snapshot EXCEPT ![p] = <<>>]
  /\ updatedOrder' = [updatedOrder EXCEPT ![p] = Null]
  /\ UNCHANGED <<store, now, ticks, arg, acc, userDoc, hist>>

\* ------------------------------------------------------------- redemptions
RedemptionData(email, grams, status) ==
  [email |-> email, grams |-> grams, status |-> status, approvedAt |-> None]

\* What createRedemption stores for the caller's data: { ...data, _customId }.
\* No field is added or defaulted (the generated _customId is not modelled: no
\* operation reads it).
NewRedemption(data) == data

\* createRedemption(data)
createRedemption(p, data) ==
  /\ Idle(p)
  /\ \E id \in RedemptionIdsOfStore :
       /\ id = FreshId(redemptions, RedemptionIdsOfStore)
       /\ redemptions' = [redemptions EXCEPT ![id] = NewRedemption(data)]
       /\ Return(p, "createRedemption", WithId(id, NewRedemption(data)))
  /\ arg' = [arg EXCEPT ![p] = NoArg]
  /\ UNCHANGED <<orders, config, users, shops, now, ticks, snapshot, updatedOrder, acc, userDoc>>
  /\ Observe

\* listRedemptions(email)
listRedemptionsIds(email) ==
  IF Truthy(email)
    THEN SelectIds(redemptions, IdsFrom(redemptions, 1, MaxRedemptions), "email", email)
    ELSE IdsFrom(redemptions, 1, MaxRedemptions)

listRedemptions(p, email) ==
  /\ Idle(p)
  /\ Return(p, "listRedemptions", MapWithId(Docs(redemptions, listRedemptionsIds(email))))
  /\ arg' = [arg EXCEPT ![p] = [NoArg EXCEPT !.email = email]]
  /\ UNCHANGED <<store, now, ticks, snapshot, updatedOrder, acc, userDoc, hist>>

\* An approval that never takes the early return.
AlreadyApproved_never(data) == FALSE

\* The test of line 105 on the data read.
AlreadyApproved(data) == data.status = "approved"

\* approveRedemption, lines 101-105: the read, the two early returns, and the
\* timestamp of line 106, taken when the read has resolved.
approveRedemption_get(p, id) ==
  /\ Idle(p)
  /\ arg' = [arg EXCEPT ![p] = [NoArg EXCEPT !.id = id]]
  /\ IF ~Exists(redemptions[id])
       THEN /\ Return(p, "approveRedemption", Null)
            /\ UNCHANGED acc
       ELSE IF AlreadyApproved(redemptions[id])
         THEN /\ Return(p, "approveRedemption", WithId(id, redemptions[id]))
              /\ UNCHANGED acc
         ELSE /\ pc' = [pc EXCEPT ![p] = "approveRedemption_update"]
              /\ acc' = [acc EXCEPT ![p] = [NoAcc EXCEPT !.now = now]]
              /\ UNCHANGED ret
  /\ UNCHANGED <<store, now, ticks, snapshot, updatedOrder, userDoc, hist>>

\* An update that flips the status it finds.
Approve_toggle(doc, at) ==
  [doc EXCEPT !.status = IF doc.status = "approved" THEN "pending" ELSE "approved",
              !.approvedAt = Some(at)]

\* ref.update({ status: 'approved', approvedAt: ... })
Approve(doc, at) == [doc EXCEPT !.status = "approved", !.approvedAt = Some(at)]

\* approveRedemption, line 106
approveRedemption_update(p) ==
  /\ pc[p] = "approveRedemption_update"
  /\ redemptions' = [redemptions EXCEPT ![arg[p].id] = Approve(@, acc[p].now)]
  /\ pc' = [pc EXCEPT ![p] = "approveRedemption_refresh"]
  /\ UNCHANGED <<orders, config, users, shops, now, ticks, locals, ret, userDoc>>
  /\ Observe

\* approveRedemption, lines 107-108
approveRedemption_refresh(p) ==
  /\ pc[p] = "approveRedemption_refresh"
  /\ Return(p, "approveRedemption", WithId(arg[p].id, redemptions[arg[p].id]))
  /\ acc' = [acc EXCEPT ![p] = NoAcc]
  /\ UNCHANGED <<store, now, ticks, arg, snapshot, updatedOrder, userDoc, hist>>

\* --------------------------------------------------------------- dashboard
\* A read that ignores the stored price.
getGoldPrice_default(doc, defaultPrice) == defaultPrice

\* getGoldPrice(defaultPrice), lines 332-339, on the config document read.
getGoldPrice(doc, defaultPrice) == IF Exists(doc) THEN doc.price ELSE defaultPrice

\* now - createdTime > thirtyDays
ElapsedThirtyDays_strict(nowT, t) ==
  \/ nowT.d - t.d > VestingDays
  \/ nowT.d - t.d = VestingDays /\ nowT.ms - t.ms > 0

\* now - createdTime >= thirtyDays (line 380), with both times as days and
\* milliseconds of the day: the difference is (now.d - t.d) * MsPerDay +
\* (now.ms - t.ms), and the second term is smaller than a day.
ElapsedThirtyDays(nowT, t) ==
  \/ nowT.d - t.d > VestingDays
  \/ nowT.d - t.d = VestingDays /\ nowT.ms - t.ms >= 0

\* An order without createdAt taken as created at the epoch.
IsVested_epoch(order, nowT) ==
  LET createdTime == IF order.createdAt = None THEN Time(0, 0) ELSE order.createdAt[1]
  IN ElapsedThirtyDays(nowT, createdTime)

\* Lines 379-380: an order without createdAt is taken as created now.
IsVested(order, nowT) ==
  LET createdTime == IF order.createdAt = None THEN nowT ELSE order.createdAt[1]
  IN ElapsedThirtyDays(nowT, createdTime)

\* The loop of lines 375-383 over the orders fetched.
RECURSIVE AggregateOrders(_, _, _, _)
AggregateOrders(os, currentPrice, nowT, a) ==
  IF os = <<>> THEN a
  ELSE LET order == Head(os)
           g == OrZero(order.rewardGrams)
       IN AggregateOrders(Tail(os), currentPrice, nowT,
            [totalGrams |-> a.totalGrams + g,
             totalValue |-> Plus(a.totalValue, Times(g, currentPrice)),
             redeemableGrams |-> a.redeemableGrams + (IF IsVested(order, nowT) THEN g ELSE 0)])

\* A query that leaves approved redemptions out.
OutstandingStatuses_pendingOnly == {"pending"}

\* A query that leaves pending redemptions out.
OutstandingStatuses_approvedOnly == {"approved"}

\* The statuses of the query of line 388.
OutstandingStatuses == {"pending", "approved"}

\* where('email', '==', email).where('status', 'in', [...]), lines 385-389
RECURSIVE SelectOutstanding(_, _, _)
SelectOutstanding(coll, ids, email) ==
  IF ids = <<>> THEN <<>>
  ELSE (IF /\ coll[Head(ids)].email = email
           /\ coll[Head(ids)].status \in OutstandingStatuses
          THEN <<Head(ids)>> ELSE <<>>)
       \o SelectOutstanding(coll, Tail(ids), email)

\* A sum that stops after the first redemption.
SumRedeemed_first(docs) ==
  IF docs = <<>> THEN 0 ELSE OrZero(Head(docs).data.grams)

\* The loop of lines 390-394.
RECURSIVE SumRedeemed(_)
SumRedeemed(docs) ==
  IF docs = <<>> THEN 0 ELSE OrZero(Head(docs).data.grams) + SumRedeemed(Tail(docs))

\* The difference without the clamp.
Remaining_unclamped(redeemableGrams, redeemed) == redeemableGrams - redeemed

\* Math.max(redeemableGrams - redeemed, 0), line 395
Remaining(redeemableGrams, redeemed) ==
  IF redeemableGrams - redeemed > 0 THEN redeemableGrams - redeemed ELSE 0

\* parseFloat(totalValue.toFixed(2)), line 396, on an amount in thousandths:
\* the nearest hundredth (NaN.toFixed(2) is "NaN").
ToFixed2(x) == IF x.nan THEN NaN ELSE Num(((x.v + 5) \div 10) * 10)

\* A first step that saves the default price when none is stored.
getDashboardData_price_saving(p, email, defaultPrice) ==
  /\ Idle(p)
  /\ pc' = [pc EXCEPT ![p] = "getDashboardData_orders"]
  /\ arg' = [arg EXCEPT ![p] = [NoArg EXCEPT !.email = email, !.defaultPrice = defaultPrice]]
  /\ acc' = [acc EXCEPT ![p] = [NoAcc EXCEPT !.currentPrice = getGoldPrice(config, defaultPrice)]]
  /\ config' = IF Exists(config) THEN config ELSE [price |-> defaultPrice, updatedAt |-> now]
  /\ UNCHANGED <<orders, redemptions, users, shops, now, ticks, snapshot, updatedOrder, ret, userDoc>>
  /\ hist' = [hist EXCEPT ![p] = Began(p)]

\* getDashboardData, line 362
getDashboardData_price(p, email, defaultPrice) ==
  /\ Idle(p)
  /\ pc' = [pc EXCEPT ![p] = "getDashboardData_orders"]
  /\ arg' = [arg EXCEPT ![p] = [NoArg EXCEPT !.email = email, !.defaultPrice = defaultPrice]]
  /\ acc' = [acc EXCEPT ![p] = [NoAcc EXCEPT !.currentPrice = getGoldPrice(config, defaultPrice)]]
  /\ UNCHANGED <<store, now, ticks, snapshot, updatedOrder, ret, userDoc>>
  /\ hist' = [hist EXCEPT ![p] = Began(p)]

\* getDashboardData, lines 364-383
getDashboardData_orders(p) ==
  /\ pc[p] = "getDashboardData_orders"
  /\ LET ids == SelectIds(orders, IdsFrom(orders, 1, MaxOrders), "userEmail", arg[p].email)
         os == MapWithId(Docs(orders, ids))
         a == AggregateOrders(os, acc[p].currentPrice, now,
                [totalGrams |-> 0, totalValue |-> Num(0), redeemableGrams |-> 0])
     IN acc' = [acc EXCEPT ![p] = [@ EXCEPT !.orders = os,
                                            !.totalGrams = a.totalGrams,
                                            !.totalValue = a.totalValue,
                                            !.redeemableGrams = a.redeemableGrams,
                                            !.now = now]]
  /\ pc' = [pc EXCEPT ![p] = "getDashboardData_redemptions"]
  /\ UNCHANGED <<store, now, ticks, arg, snapshot, updatedOrder, ret, userDoc, hist>>

\* getDashboardData, lines 385-399
getDashboardData_redemptions(p) ==
  /\ pc[p] = "getDashboardData_redemptions"
  /\ LET ids == SelectOutstanding(redemptions, IdsFrom(redemptions, 1, MaxRedemptions),
                                  arg[p].email)
         redeemed == SumRedeemed(Docs(redemptions, ids))
     IN acc' = [acc EXCEPT ![p] =
                  [@ EXCEPT !.redeemableGrams = Remaining(@, redeemed),
                            !.totalValue = ToFixed2(@)]]
  /\ pc' = [pc EXCEPT ![p] = "getDashboardData_shops"]
  /\ UNCHANGED <<store, now, ticks, arg, snapshot, updatedOrder, ret, userDoc, hist>>

\* Math.ceil(totalGrams) || 1, line 398 (grams are whole numbers here).
NextMilestone(totalGrams) == IF totalGrams = 0 THEN 1 ELSE totalGrams

\* The summary of lines 403-415; progressPercent is kept as the fraction
\* current / nextMilestone.
Summary(a, shopList) ==
  [totalGrams |-> a.totalGrams, totalValue |-> a.totalValue,
   redeemableGrams |-> a.redeemableGrams, currentPrice |-> a.currentPrice,
   orders |-> a.orders, shops |-> shopList,
   progress |-> [current |-> a.totalGrams, nextMilestone |-> NextMilestone(a.totalGrams)]]

\* getDashboardData(email, defaultPrice), lines 360-415, with all its reads
\* made of one state st of the store at time t.
getDashboardData(st, email, defaultPrice, t) ==
  LET currentPrice == getGoldPrice(st.config, defaultPrice)
      ids == SelectIds(st.orders, IdsFrom(st.orders, 1, MaxOrders), "userEmail", email)
      os == MapWithId(Docs(st.orders, ids))
      a == AggregateOrders(os, currentPrice, t,
             [totalGrams |-> 0, totalValue |-> Num(0), redeemableGrams |-> 0])
      rids == SelectOutstanding(st.redemptions, IdsFrom(st.redemptions, 1, MaxRedemptions),
                                email)
      redeemed == SumRedeemed(Docs(st.redemptions, rids))
  IN Summary([currentPrice |-> currentPrice, orders |-> os, totalGrams |-> a.totalGrams,
              totalValue |-> ToFixed2(a.totalValue),
              redeemableGrams |-> Remaining(a.redeemableGrams, redeemed), now |-> t],
             st.shops)

\* getDashboardData, lines 401-415
getDashboardData_shops(p) ==
  /\ pc[p] = "getDashboardData_shops"
  /\ Return(p, "getDashboardData", Summary(acc[p], shops))
  /\ acc' = [acc EXCEPT ![p] = NoAcc]
  /\ UNCHANGED <<store, now, ticks, arg, snapshot, updatedOrder, userDoc>>
  /\ hist' = [hist EXCEPT ![p] = NoHist]

\* ---------------------------------------------------------- price registry
\* A value a caller passes as a price: a number, or a string of characters.
JsNumber(n) == [type |-> "number", num |-> n, str |-> <<>>]
JsString(cs) == [type |-> "string", num |-> NaN, str |-> cs]

DigitValue ==
  [c \in {"0", "1", "2", "3", "4", "5", "6", "7", "8", "9"} |->
     CASE c = "0" -> 0 [] c = "1" -> 1 [] c = "2" -> 2 [] c = "3" -> 3 [] c = "4" -> 4
       [] c = "5" -> 5 [] c = "6" -> 6 [] c = "7" -> 7 [] c = "8" -> 8 [] c = "9" -> 9]

\* The longest prefix of cs made of digits.
RECURSIVE DigitPrefix(_)
DigitPrefix(cs) ==
  IF cs = <<>> \/ Head(cs) \notin DOMAIN DigitValue THEN <<>>
  ELSE <<Head(cs)>> \o DigitPrefix(Tail(cs))

RECURSIVE DigitsValue(_, _)
DigitsValue(ds, v) ==
  IF ds = <<>> THEN v ELSE DigitsValue(Tail(ds), 10 * v + DigitValue[Head(ds)])

\* The first three digits of a fraction, as thousandths.
Thousandths(ds) ==
  100 * (IF Len(ds) >= 1 THEN DigitValue[ds[1]] ELSE 0)
  + 10 * (IF Len(ds) >= 2 THEN DigitValue[ds[2]] ELSE 0)
  + (IF Len(ds) >= 3 THEN DigitValue[ds[3]] ELSE 0)

\* parseFloat of a string: the longest prefix digits[.digits] read as a
\* number, NaN when there is none (signs, blanks and exponents are not among
\* the inputs).
ParseFloatString(cs) ==
  LET ip == DigitPrefix(cs)
      rest == SubSeq(cs, Len(ip) + 1, Len(cs))
      fp == IF rest # <<>> /\ Head(rest) = "." THEN DigitPrefix(Tail(rest)) ELSE <<>>
  IN IF ip = <<>> /\ fp = <<>> THEN NaN
     ELSE Num(1000 * DigitsValue(ip, 0) + Thousandths(fp))

\* parseFloat(price), line 348: a number is read back from its own digits.
ParseFloat(x) == IF x.type = "number" THEN x.num ELSE ParseFloatString(x.str)

\* setGoldPrice(price), lines 346-350: the set with merge writes both fields
\* of the document, and the argument is returned as passed.
setGoldPrice(p, price) ==
  /\ Idle(p)
  /\ config' = [price |-> ParseFloat(price), updatedAt |-> now]
  /\ Return(p, "setGoldPrice", price)
  /\ arg' = [arg EXCEPT ![p] = NoArg]
  /\ UNCHANGED <<orders, redemptions, users, shops, now, ticks, snapshot, updatedOrder, acc, userDoc>>
  /\ Observe

\* getGoldPrice(defaultPrice), lines 332-339, called on its own.
getGoldPrice_call(p, defaultPrice) ==
  /\ Idle(p)
  /\ Return(p, "getGoldPrice", getGoldPrice(config, defaultPrice))
  /\ arg' = [arg EXCEPT ![p] = [NoArg EXCEPT !.defaultPrice = defaultPrice]]
  /\ UNCHANGED <<store, now, ticks, snapshot, updatedOrder, acc, userDoc, hist>>

\* ------------------------------------------------------------------- users
\* { ...base, ...top }: a field of top, where top has it, replaces base's.
Spread(base, top) ==
  [email |-> IF top.email # NoVal THEN top.email ELSE base.email,
   displayName |-> IF top.displayName # NoVal THEN top.displayName ELSE base.displayName,
   phone |-> IF top.phone # NoVal THEN top.phone ELSE base.phone,
   createdAt |-> IF top.createdAt # None THEN top.createdAt ELSE base.createdAt,
   updatedAt |-> IF top.updatedAt # None THEN top.updatedAt ELSE base.updatedAt]

\* doc.data() of a document read, {} for none.
Data(d) == IF Exists(d) THEN d ELSE NoUser

\* ref.set(fields, { merge: true }): the fields given are written over those
\* the document has at the time of the write.
SetMerge(stored, fields) == Spread(Data(stored), fields)

\* ref.set(fields): the document becomes the fields given.
SetReplace(stored, fields) == fields

\* { ...existing, ...rest, updatedAt: now }, line 133.
UpdatedFields(existing, rest, t) ==
  Spread(Spread(existing, rest), [NoUser EXCEPT !.updatedAt = Some(t)])

\* { email, ...rest, createdAt: now, updatedAt: now }, line 135.
CreatedFields(email, rest, t) ==
  Spread(Spread([NoUser EXCEPT !.email = email], rest),
         [NoUser EXCEPT !.createdAt = Some(t), !.updatedAt = Some(t)])

\* createUser(data), lines 122-128: email is split from the rest of data, a
\* missing email throws, and the user's document is read.
createUser_get(p, data) ==
  /\ Idle(p)
  /\ arg' = [arg EXCEPT ![p] = [NoArg EXCEPT !.email = data.email,
                                             !.data = [data EXCEPT !.email = NoVal]]]
  /\ IF ~Truthy(data.email)
     THEN /\ Return(p, "createUser", [error |-> "Email is required to create a user"])
          /\ UNCHANGED userDoc
     ELSE /\ pc' = [pc EXCEPT ![p] = "createUser_set"]
          /\ userDoc' = [userDoc EXCEPT ![p] = users[data.email]]
          /\ UNCHANGED ret
  /\ UNCHANGED <<store, now, ticks, snapshot, updatedOrder, acc, hist>>

\* Lines 129-136: the write, by the branch the document read selects.
createUser_set(p) ==
  /\ pc[p] = "createUser_set"
  /\ pc' = [pc EXCEPT ![p] = "createUser_refresh"]
  /\ users' = [users EXCEPT ![arg[p].email] =
                 IF Exists(userDoc[p])
                 THEN SetMerge(@, UpdatedFields(Data(userDoc[p]), arg[p].data, now))
                 ELSE SetReplace(@, CreatedFields(arg[p].email, arg[p].data, now))]
  /\ UNCHANGED <<orders, redemptions, config, shops, now, ticks, locals, ret, userDoc>>
  /\ Observe

\* Lines 137-138: the document is read again and returned with its id.
createUser_refresh(p) ==
  /\ pc[p] = "createUser_refresh"
  /\ Return(p, "createUser", WithId(arg[p].email, users[arg[p].email]))
  /\ userDoc' = [userDoc EXCEPT ![p] = NoDoc]
  /\ UNCHANGED <<store, now, ticks, locals, hist>>

\* --------------------------------------------------------- specifications
\* Callers that never overlap: a caller takes a step only while the others
\* are idle.
Alone(p) == \A q \in Procs \ {p} : Idle(q)

\* -- The aggregation engine over the ledger, under one caller whose calls
\* follow one another.
LedgerOrders ==
  {OrderData("X", "a", NoVal, Some(10), Some(Time(0, 0))),
   OrderData("X", "a", NoVal, Some(10), Some(Time(0, 1))),
   OrderData("X", "a", NoVal, Some(10), None),
   OrderData("X", "a", NoVal, None, Some(Time(0, 0))),
   OrderData("X", "b", NoVal, Some(10), Some(Time(0, 0)))}

Redemptions ==
  {RedemptionData("a", Some(2), "pending"),
   RedemptionData("a", Some(3), "approved"),
   RedemptionData("a", Some(2), NoVal),
   RedemptionData("a", None, "pending"),
   RedemptionData("b", Some(3), "pending")}

Next ==
  \E p \in {1} :
    \/ \E d \in LedgerOrders : createOrder(p, d)
    \/ \E d \in Redemptions : createRedemption(p, d)
    \/ \E e \in Emails, d \in Prices : getDashboardData_price(p, e, d)
    \/ getDashboardData_orders(p)
    \/ getDashboardData_redemptions(p)
    \/ getDashboardData_shops(p)

Spec == Init /\ [][Next]_vars

\* -- The redemption lifecycle.
LifecycleRedemptions ==
  {RedemptionData("a", Some(2), s) : s \in {NoVal, "pending", "approved"}}

RedeemStep(p) ==
  \/ \E d \in LifecycleRedemptions : createRedemption(p, d)
  \/ \E e \in {"a"} : listRedemptions(p, e)
  \/ \E id \in RedemptionIdsOfStore : approveRedemption_get(p, id)
  \/ approveRedemption_update(p)
  \/ approveRedemption_refresh(p)
  \/ \E e \in {"a"}, d \in Prices : getDashboardData_price(p, e, d)
  \/ getDashboardData_orders(p)
  \/ getDashboardData_redemptions(p)
  \/ getDashboardData_shops(p)

\* Two callers whose calls interleave at every store step.
NextRedeem == \E p \in Procs : RedeemStep(p)

SpecRedeem == Init /\ [][NextRedeem]_vars

\* Two callers whose calls never overlap.
NextRedeemSeq ==
  \/ Tick
  \/ \E p \in Procs :
       \/ Alone(p) /\ \E d \in LifecycleRedemptions : createRedemption(p, d)
       \/ Alone(p) /\ \E e \in {"a"} : listRedemptions(p, e)
       \/ Alone(p) /\ \E id \in RedemptionIdsOfStore : approveRedemption_get(p, id)
       \/ Alone(p) /\ approveRedemption_update(p)
       \/ Alone(p) /\ approveRedemption_refresh(p)
       \/ Alone(p) /\ \E e \in {"a"}, d \in Prices : getDashboardData_price(p, e, d)
       \/ Alone(p) /\ getDashboardData_orders(p)
       \/ Alone(p) /\ getDashboardData_redemptions(p)
       \/ Alone(p) /\ getDashboardData_shops(p)

SpecRedeemSeq == Init /\ [][NextRedeemSeq]_vars

\* -- Order attribution.
ClaimableOrders ==
  {OrderData("X", u, e, Some(10), None) : u \in {NoVal, ""} \cup Emails, e \in {NoVal} \cup Emails}

OrdersStep(p) ==
  \/ \E d \in ClaimableOrders : createOrder(p, d)
  \/ \E e \in {NoVal} \cup Emails : listOrders(p, e)
  \/ \E o \in OrderIds \cup {"Y"}, e \in Emails \cup {""} : claimOrder_query(p, o, e)
  \/ claimOrder_update(p)
  \/ claimOrder_get(p)

\* One caller, whose calls follow one another.
NextOrders == \E p \in {1} : OrdersStep(p)

SpecOrders == Init /\ [][NextOrders]_vars

\* Two callers whose claims interleave at every store step.
RacedOrders == {OrderData("X", u, NoVal, Some(10), None) : u \in {NoVal, "a"}}

NextClaim ==
  \E p \in Procs :
    \/ \E d \in RacedOrders : createOrder(p, d)
    \/ \E e \in Emails : claimOrder_query(p, "X", e)
    \/ claimOrder_update(p)
    \/ claimOrder_get(p)

SpecClaim == Init /\ [][NextClaim]_vars

\* -- The price registry, under one caller.
PriceInputs ==
  {JsNumber(Num(75000)), JsNumber(Num(80500)), JsNumber(Num(60000)), JsNumber(NaN),
   JsString(<<"7", "5">>), JsString(<<"7", "5", ".", "5">>), JsString(<<"7", "5", "a">>),
   JsString(<<"7", "5", ".">>), JsString(<<".", "5">>), JsString(<<"6", "0", ".", "0", "0", "4">>),
   JsString(<<"a", "b", "c">>), JsString(<<>>)}

DefaultPrices == {Num(60000), Num(50000), Num(75000), Num(0)}

NextPrice ==
  \/ Tick
  \/ \E p \in {1} :
       \/ \E x \in PriceInputs : setGoldPrice(p, x)
       \/ \E d \in DefaultPrices : getGoldPrice_call(p, d)

SpecPrice == Init /\ [][NextPrice]_vars

\* -- The user records, under calls that do not overlap, as time passes.
UserEmails == {"a"}

UserData ==
  {[NoUser EXCEPT !.email = e, !.displayName = n, !.phone = ph, !.createdAt = c] :
     e \in UserEmails \cup {NoVal}, n \in {NoVal, "A"}, ph \in {NoVal, "1"},
     c \in {None, Some(Time(0, 0))}}

UsersStep(p) ==
  \/ \E data \in UserData : createUser_get(p, data)
  \/ createUser_set(p)
  \/ createUser_refresh(p)

NextUsers ==
  \/ Tick
  \/ \E p \in {1} : UsersStep(p)

SpecUsers == Init /\ [][NextUsers]_vars

\* -- Two createUser calls for the same email with disjoint fields, interleaved.
RacedUserData ==
  [p \in Procs |-> IF p = 1 THEN [NoUser EXCEPT !.email = "a", !.displayName = "A"]
                            ELSE [NoUser EXCEPT !.email = "a", !.phone = "1"]]

NextUsersRace ==
  \/ Tick
  \/ \E p \in Procs :
       \/ createUser_get(p, RacedUserData[p])
       \/ createUser_set(p)
       \/ createUser_refresh(p)

SpecUsersRace == Init /\ [][NextUsersRace]_vars

\* -- The round trip of an order: created unattributed, claimed, summarised.
RoundTripOrders == {OrderData("X", NoVal, NoVal, Some(g), None) : g \in {5, 1}}

RoundTripPrices == {Num(50000), Num(50004)}

NextRoundTrip ==
  \/ Tick
  \/ \E p \in {1} :
       \/ \E d \in RoundTripOrders : createOrder(p, d)
       \/ \E e \in Emails : claimOrder_query(p, "X", e)
       \/ claimOrder_update(p)
       \/ claimOrder_get(p)
       \/ \E e \in Emails, d \in RoundTripPrices : getDashboardData_price(p, e, d)
       \/ getDashboardData_orders(p)
       \/ getDashboardData_redemptions(p)
       \/ getDashboardData_shops(p)

SpecRoundTrip == Init /\ [][NextRoundTrip]_vars

\* -- A dashboard call of caller 1 with the writes of caller 2 landing between
\* its steps.
DashOrders == {OrderData("X", "a", NoVal, Some(10), Some(Time(0, 0)))}

DashRedemptions == {RedemptionData("a", Some(2), "pending")}

DashPriceInputs == {JsNumber(Num(75000))}

NextDash ==
  \/ \E d \in Prices : getDashboardData_price(1, "a", d)
  \/ getDashboardData_orders(1)
  \/ getDashboardData_redemptions(1)
  \/ getDashboardData_shops(1)
  \/ \E d \in DashOrders : createOrder(2, d)
  \/ \E d \in DashRedemptions : createRedemption(2, d)
  \/ \E x \in DashPriceInputs : setGoldPrice(2, x)

SpecDash == Init /\ [][NextDash]_vars

\* -- Claims that the store may fail, retried; calls do not overlap.
RetryOrders == {OrderData("X", u, NoVal, Some(10), None) : u \in {NoVal, "b"}}

NextRetry ==
  \E p \in Procs :
    \/ Alone(p) /\ \E d \in RetryOrders : createOrder(p, d)
    \/ Alone(p) /\ \E e \in Emails : claimOrder_query(p, "X", e)
    \/ Alone(p) /\ claimOrder_update(p)
    \/ Alone(p) /\ claimOrder_get(p)
    \/ Alone(p) /\ claimOrder_fail(p)

SpecRetry == Init /\ [][NextRetry]_vars

\* -- Approvals of two callers, interleaved at every store step, as time
\* passes, beside a vested order.
ApprovalOrders == {OrderData("X", "a", NoVal, Some(10), Some(Time(0, 0)))}

ApprovalRedemptions == {RedemptionData("a", Some(2), "pending")}

NextApproval ==
  \/ Tick
  \/ \E d \in ApprovalOrders : createOrder(1, d)
  \/ \E d \in ApprovalRedemptions : createRedemption(1, d)
  \/ \E p \in Procs :
       \/ \E id \in RedemptionIdsOfStore : approveRedemption_get(p, id)
       \/ approveRedemption_update(p)
       \/ approveRedemption_refresh(p)

SpecApproval == Init /\ [][NextApproval]_vars

\* ------------------------------------------------------------------ claims

\* C1: under claims that never overlap, an order whose userEmail holds a
\* non-empty value is left as it is by every later step (the only steps that
\* touch an existing order are claimOrder's), and a claimOrder that found the
\* order already attributed returns it as it found it.
C1_ClaimKeepsOwner ==
  [][/\ \A id \in OrderIdsOfStore :
          (Exists(orders[id]) /\ Truthy(orders[id].userEmail)) => orders'[id] = orders[id]
     /\ \A p \in Procs :
          (/\ pc[p] = "claimOrder_get"
           /\ pc'[p] = "idle"
           /\ Truthy(Head(snapshot[p]).data.userEmail))
          => ret'[p] = [op |-> "claimOrder",
                        val |-> WithId(Head(snapshot[p]).id, Head(snapshot[p]).data)]]_vars

\* A claim by b has gone past its update of an order owned by a, and the order
\* is still a's.
C1_Witness ==
  \E p \in Procs :
    /\ pc[p] = "claimOrder_get"
    /\ arg[p].email = "b"
    /\ Head(snapshot[p]).data.userEmail = "a"
    /\ orders[Head(snapshot[p]).id].userEmail = "a"

\* C2: when claims interleave, every update of a call that read the order as
\* unclaimed writes that call's email whatever owner the order has by then, so
\* the owner is the email of the update that lands last.
C2_LastWriteWins ==
  [][\A p \in Procs :
       (/\ pc[p] = "claimOrder_update"
        /\ pc'[p] = "claimOrder_get"
        /\ Unclaimed(Head(snapshot[p]).data))
       => orders'[Head(snapshot[p]).id].userEmail = arg[p].email]_vars

\* Both calls read the order as unclaimed and both wrote: the first returned
\* the order as its own, the second returned it as its own, and the order is
\* the second's.
C2_Witness ==
  \E p, q \in Procs :
    /\ Idle(p) /\ Idle(q)
    /\ ret[p].op = "claimOrder" /\ ret[q].op = "claimOrder"
    /\ "userEmail" \in DOMAIN ret[p].val /\ "userEmail" \in DOMAIN ret[q].val
    /\ ret[p].val.id = ret[q].val.id
    /\ ret[p].val.userEmail = "a"
    /\ ret[q].val.userEmail = "b"
    /\ orders[ret[q].val.id].userEmail = "b"

VestedOrders(e, t) ==
  {id \in OrderIdsOfStore :
     /\ Exists(orders[id])
     /\ orders[id].userEmail = e
     /\ orders[id].createdAt # None
     /\ DueBy(orders[id].createdAt[1], t)}

VestedGrams(e, t) ==
  SetSum(VestedOrders(e, t),
         [id \in OrderIdsOfStore |->
            IF Exists(orders[id]) THEN GramsOf(orders[id].rewardGrams) ELSE 0])

OutstandingRedemptions(e) ==
  {id \in RedemptionIdsOfStore :
     /\ Exists(redemptions[id])
     /\ redemptions[id].email = e
     /\ redemptions[id].status \in {"pending", "approved"}}

OutstandingGrams(e) ==
  SetSum(OutstandingRedemptions(e),
         [id \in RedemptionIdsOfStore |->
            IF Exists(redemptions[id]) THEN GramsOf(redemptions[id].grams) ELSE 0])

\* C3: for every email, the grams of its pending and approved redemptions do
\* not exceed the grams of its vested orders.
C3_NoDoubleSpend ==
  \A e \in Emails : OutstandingGrams(e) <= VestedGrams(e, now)

\* C4: when approvals never overlap, two approveRedemption calls on one
\* redemption return the same record, and the stored document (its approvedAt
\* included) is still the one the first call returned.
C4_ApproveIdempotent ==
  \A p, q \in Procs :
    (/\ ret[p].op = "approveRedemption" /\ ret[q].op = "approveRedemption"
     /\ "id" \in DOMAIN ret[p].val /\ "id" \in DOMAIN ret[q].val
     /\ ret[p].val.id = ret[q].val.id)
    => /\ ret[p].val = ret[q].val
       /\ ret[p].val = WithId(ret[p].val.id, redemptions[ret[p].val.id])

\* Two callers have each had a redemption approved at the start time returned,
\* and the clock has moved since that approval.
C4_Witness ==
  /\ ret[1].op = "approveRedemption" /\ ret[2].op = "approveRedemption"
  /\ "id" \in DOMAIN ret[1].val /\ "id" \in DOMAIN ret[2].val
  /\ ret[1].val.id = ret[2].val.id
  /\ ret[1].val.approvedAt = Some(StartTime)
  /\ now # StartTime
  /\ Idle(1) /\ Idle(2)

\* C5: under every interleaving of createRedemption, approveRedemption,
\* listRedemptions and getDashboardData, an existing redemption stays, an
\* approved one stays approved, and a step that changes a redemption's status
\* changes it to approved.
C5_StatusMonotonic ==
  [][\A id \in RedemptionIdsOfStore :
       Exists(redemptions[id]) =>
         /\ Exists(redemptions'[id])
         /\ redemptions[id].status = "approved" => redemptions'[id].status = "approved"
         /\ redemptions'[id].status # redemptions[id].status
              => redemptions'[id].status = "approved"]_vars

\* A redemption approved by approveRedemption, with another approval of it
\* still on its way to the update.
C5_Witness ==
  \E id \in RedemptionIdsOfStore, p \in Procs :
    /\ Exists(redemptions[id])
    /\ redemptions[id].status = "approved"
    /\ redemptions[id].approvedAt # None
    /\ pc[p] = "approveRedemption_update"
    /\ arg[p].id = id

\* C6: the redeemableGrams a dashboard call returns is never negative.
C6_RedeemableNonNegative ==
  \A p \in Procs :
    ret[p].op = "getDashboardData" => ret[p].val.redeemableGrams >= 0

\* A dashboard returned for an email whose outstanding redemptions exceed its
\* vested grams.
C6_Witness ==
  \E p \in Procs :
    /\ Idle(p)
    /\ ret[p].op = "getDashboardData"
    /\ ret[p].val.redeemableGrams = 0
    /\ OutstandingGrams(arg[p].email) > VestedGrams(arg[p].email, now)

\* C7: a dashboard call returns redeemableGrams = max(V - R, 0), V the vested
\* grams of the email's orders at the call's time and R the grams of the
\* email's pending and approved redemptions.
C7_RedeemableFormula ==
  [][\A p \in Procs :
       (pc[p] = "getDashboardData_shops" /\ pc'[p] = "idle")
       => LET d == VestedGrams(arg[p].email, acc[p].now) - OutstandingGrams(arg[p].email)
          IN ret'[p].val.redeemableGrams = IF d > 0 THEN d ELSE 0]_vars

\* 10 vested grams, a pending redemption of 2 and an approved one of 3: 5.
C7_Witness ==
  \E p \in Procs :
    /\ Idle(p)
    /\ ret[p].op = "getDashboardData"
    /\ arg[p].email = "a"
    /\ VestedGrams("a", now) = 10
    /\ \E i, j \in OutstandingRedemptions("a") :
         /\ redemptions[i].status = "pending" /\ redemptions[i].grams = Some(2)
         /\ redemptions[j].status = "approved" /\ redemptions[j].grams = Some(3)
    /\ ret[p].val.redeemableGrams = 5

C9_StatusDefined ==
  /\ \A id \in RedemptionIdsOfStore :
       Exists(redemptions[id]) => redemptions[id].status # NoVal
  /\ \A p \in Procs :
       ret[p].op = "createRedemption" => ret[p].val.status # NoVal

\* C10: listOrders(email) returns the orders whose userEmail is email, and
\* listOrders() all orders.
C10_ListOrdersByUserEmail ==
  \A p \in Procs :
    (Idle(p) /\ ret[p].op = "listOrders")
    => {ret[p].val[i].id : i \in 1..Len(ret[p].val)}
         = {id \in OrderIdsOfStore :
              /\ Exists(orders[id])
              /\ Truthy(arg[p].email) => orders[id].userEmail = arg[p].email}

\* C12: getGoldPrice(d) returns d while there is no price record and the
\* stored price otherwise, and the price stored by setGoldPrice of a number is
\* that number: after it, getGoldPrice returns the number whatever d is.
C12_PriceRoundTrip ==
  \A p \in Procs :
    Idle(p) =>
      /\ ret[p].op = "getGoldPrice"
           => ret[p].val = IF Exists(config) THEN config.price ELSE arg[p].defaultPrice
      /\ (ret[p].op = "setGoldPrice" /\ ret[p].val.type = "number" /\ ~ret[p].val.num.nan)
           => Exists(config) /\ config.price = ret[p].val.num

\* getGoldPrice(60) has returned 75, the price set.
C12_Witness ==
  \E p \in Procs :
    /\ Idle(p)
    /\ ret[p].op = "getGoldPrice"
    /\ arg[p].defaultPrice = Num(60000)
    /\ ret[p].val = Num(75000)
    /\ Exists(config) /\ config.price = Num(75000)

\* C13: the stored price is a number in every state, and getGoldPrice never
\* returns a value that is not a number.
C13_PriceIsNumber ==
  /\ Exists(config) => ~config.price.nan
  /\ \A p \in Procs : ret[p].op = "getGoldPrice" => ~ret[p].val.nan

\* C11: a createUser call on a user that exists leaves the record's createdAt
\* as it was, whatever other fields the call carries, and sets updatedAt.
C11_CreatedAtPreserved ==
  [][\A e \in Emails :
       Exists(users[e]) =>
         /\ users'[e].createdAt = users[e].createdAt
         /\ users'[e] # users[e] => users'[e].updatedAt = Some(now)]_vars

\* C17: when two createUser calls for one email with disjoint fields have both
\* returned, the record has the fields of both.
C17_BothFieldsKept ==
  (\A p \in Procs : Idle(p) /\ ret[p].op = "createUser")
    => /\ Exists(users["a"])
       /\ users["a"].displayName = "A"
       /\ users["a"].phone = "1"

\* The grams of the orders attributed to e.
ClaimedGrams(e) ==
  SetSum({id \in OrderIdsOfStore : Exists(orders[id]) /\ orders[id].userEmail = e},
         [id \in OrderIdsOfStore |->
            IF Exists(orders[id]) THEN GramsOf(orders[id].rewardGrams) ELSE 0])

\* C14 as stated: with no price record, the dashboard of e at price p after
\* orders of g grams without userEmail and createdAt were created and claimed
\* for e has totalGrams = g, totalValue = g * p and redeemableGrams = 0, and
\* an order not claimed for e contributes nothing.
C14_RoundTripExact ==
  \A p \in Procs :
    (Idle(p) /\ ret[p].op = "getDashboardData" /\ ~Exists(config))
    => LET g == ClaimedGrams(arg[p].email)
       IN /\ ret[p].val.totalGrams = g
          /\ ret[p].val.totalValue = Num(g * arg[p].defaultPrice.v)
          /\ ret[p].val.redeemableGrams = 0

\* C14: the same with totalValue = g * p rounded to two decimal places.
C14_RoundTrip ==
  \A p \in Procs :
    (Idle(p) /\ ret[p].op = "getDashboardData" /\ ~Exists(config))
    => LET g == ClaimedGrams(arg[p].email)
       IN /\ ret[p].val.totalGrams = g
          /\ ret[p].val.totalValue = Num(NearestHundredth(g * arg[p].defaultPrice.v))
          /\ ret[p].val.redeemableGrams = 0

\* One order of 5 grams, claimed for a after it was created without
\* userEmail; the dashboard of a at price 50 returned 5, 250 and 0.
C14_Witness ==
  \E p \in Procs, e \in Emails :
    /\ Idle(p)
    /\ ret[p].op = "getDashboardData"
    /\ arg[p].email = e
    /\ arg[p].defaultPrice = Num(50000)
    /\ ~Exists(config)
    /\ Exists(orders[1]) /\ ~Exists(orders[2])
    /\ orders[1].userEmail = e /\ orders[1].rewardGrams = Some(5)
    /\ orders[1].createdAt = None
    /\ ret[p].val.totalGrams = 5
    /\ ret[p].val.totalValue = Num(250000)
    /\ ret[p].val.redeemableGrams = 0

\* C15: no step of a getDashboardData call changes the orders, redemptions,
\* users, shops or price record, whether or not a price is stored.
C15_DashboardNoWrites ==
  [][\A p \in Procs :
       (\/ Idle(p) /\ pc'[p] = "getDashboardData_orders"
        \/ InDashboard(p) /\ pc'[p] # pc[p])
       => store' = store]_vars

\* A dashboard call that used the default price has returned, and the price
\* record is still absent beside an order and a redemption.
C15_Witness ==
  \E p \in Procs :
    /\ Idle(p)
    /\ ret[p].op = "getDashboardData"
    /\ ret[p].val.currentPrice = arg[p].defaultPrice
    /\ ~Exists(config)
    /\ \E i \in OrderIdsOfStore : Exists(orders[i])
    /\ \E i \in RedemptionIdsOfStore : Exists(redemptions[i])

\* The figures of a summary returned.
Figures(v) ==
  [totalGrams |-> v.totalGrams, totalValue |-> v.totalValue,
   redeemableGrams |-> v.redeemableGrams, currentPrice |-> v.currentPrice]

\* C19: a getDashboardData call during which no write has landed returns the
\* figures of the store's current state.
C19_QuietCallIsAtomic ==
  [][\A p \in Procs :
       (pc[p] = "getDashboardData_shops" /\ pc'[p] = "idle" /\ ~hist[p].written)
       => Figures(ret'[p].val)
            = StateSummary(StoreState(orders, redemptions, config, users, shops),
                           arg[p].email, arg[p].defaultPrice, now)]_vars

\* Writes have landed between the steps of a call, and the summary it is about
\* to return has the figures of none of the states the store has been in
\* since the call began.
C19_Witness ==
  \E p \in Procs :
    /\ pc[p] = "getDashboardData_shops"
    /\ hist[p].written
    /\ Figures(Summary(acc[p], shops)) \notin hist[p].seen

\* C18: with claimOrder calls that may fail part-way and do not overlap, no
\* step (a failure included) changes or removes an order that has a userEmail,
\* a step that gives an order a userEmail gives it the email of the call
\* taking the step, and when a claimOrder(X, e) call completes every order
\* with orderId X has a userEmail: the orders that had none when the call
\* began are attributed to e.
C18_RetrySafe ==
  [][\A p \in Procs :
       /\ \A id \in OrderIdsOfStore :
            Exists(orders[id]) =>
              /\ Truthy(orders[id].userEmail) => orders'[id] = orders[id]
              /\ (orders'[id] # orders[id] /\ pc'[p] # pc[p])
                   => orders'[id] = [orders[id] EXCEPT !.userEmail = arg[p].email]
       /\ (pc[p] = "claimOrder_get" /\ pc'[p] = "idle" /\ "id" \in DOMAIN ret'[p].val)
            => \A id \in OrderIdsOfStore :
                 (Exists(orders'[id]) /\ orders'[id].orderId = arg[p].orderId)
                 => Truthy(orders'[id].userEmail)]_vars

\* claimOrder(X, a) has failed for one caller and completed for the other,
\* and both orders X, created without userEmail, are attributed to a.
C18_Witness ==
  \E p, q \in Procs :
    /\ Idle(p) /\ Idle(q)
    /\ ret[p].op = "claimOrder" /\ ret[p].val = StoreFailure
    /\ ret[q].op = "claimOrder" /\ "id" \in DOMAIN ret[q].val
    /\ arg[p].orderId = "X" /\ arg[p].email = "a" /\ arg[q] = arg[p]
    /\ \A id \in OrderIdsOfStore :
         /\ Exists(orders[id])
         /\ orders[id].orderId = "X"
         /\ orders[id].userEmail = arg[q].email

\* C16: under every interleaving of approveRedemption calls, the update of a
\* call is applied only to a redemption that is not approved, and the
\* approvedAt of an approved redemption is never written again.
C16_ApprovedAtWrittenOnce ==
  [][\A id \in RedemptionIdsOfStore :
       (Exists(redemptions[id]) /\ redemptions[id].status = "approved")
       => /\ redemptions'[id].approvedAt = redemptions[id].approvedAt
          /\ \A p \in Procs :
               (pc[p] = "approveRedemption_update" /\ arg[p].id = id)
               => pc'[p] = pc[p]]_vars

\* C20: a step that takes a redemption from pending to approved leaves the
\* redeemableGrams, totalGrams and totalValue of every email's dashboard, at
\* the same time and default price, as they were.
C20_ApproveKeepsBalance ==
  [][(\E id \in RedemptionIdsOfStore :
        /\ Exists(redemptions[id])
        /\ redemptions[id].status = "pending"
        /\ redemptions'[id].status = "approved")
     => \A e \in Emails, d \in Prices :
          LET before ==
                getDashboardData(StoreState(orders, redemptions, config, users, shops),
                                 e, d, now)
              after ==
                getDashboardData(StoreState(orders', redemptions', config', users', shops'),
                                 e, d, now)
          IN /\ after.redeemableGrams = before.redeemableGrams
             /\ after.totalGrams = before.totalGrams
             /\ after.totalValue = before.totalValue]_vars

\* A redemption of 2 grams of a, approved by approveRedemption, beside a
\* vested order of 10 grams: the dashboard of a has 8 redeemable grams.
C20_Witness ==
  \E id \in RedemptionIdsOfStore, p \in Procs :
    /\ Idle(p)
    /\ ret[p].op = "approveRedemption"
    /\ "id" \in DOMAIN ret[p].val
    /\ ret[p].val.id = id
    /\ redemptions[id].status = "approved"
    /\ redemptions[id].approvedAt # None
    /\ \A j \in RedemptionIdsOfStore \ {id} : ~Exists(redemptions[j])
    /\ LET summary == getDashboardData(StoreState(orders, redemptions, config, users, shops),
                                       "a", Num(50000), now)
       IN summary.redeemableGrams = 8 /\ summary.totalGrams = 10

====
